---- MODULE Spec2Model ----
(***************************************************************************)
(* Account lifecycle of the Flask application in src/app.py: signup,       *)
(* e-mail confirmation, sign-in/out, password reset through signed,        *)
(* salted, time-limited tokens, password change and account deletion.      *)
(*                                                                         *)
(* The User table, the login sessions of the browsers, the mails that were *)
(* delivered and the wall clock are the state.  Every route handler is one *)
(* action; its inputs (form fields, token in the URL, outcome of the SMTP  *)
(* send) are drawn from small sets.  The column created_at is written once *)
(* at insert and read by no handler; it is left out of the rows.           *)
(*                                                                         *)
(* Spec serves the requests of one browser one after the other.            *)
(* SpecSessions serves two browsers, each with a session of its own.       *)
(* SpecRace runs two signup requests side by side, each split at the point *)
(* between its query for the address and its commit.                       *)
(***************************************************************************)
EXTENDS Integers, FiniteSets, Sequences, TLC

VARIABLES users, session, mailbox, clock, req, resp, pending

vars == <<users, session, mailbox, clock, req, resp, pending>>

(***************************************************************************)
(* Bounds of the model.                                                    *)
(***************************************************************************)
\* the largest id the table hands out
MaxId == 2
\* the mails a recipient keeps at a time
MaxMail == 1
\* the clock stops after MaxTicks steps of TickLen seconds
MaxTicks == 2
TickLen == 3600

(***************************************************************************)
(* Program constants.                                                      *)
(***************************************************************************)
MAX_AGE == 3600

SECRET_KEY == "your_default_secret_key"

EMAIL_CONFIRMATION == "email-confirmation"

PASSWORD_RESET == "password-reset"

(***************************************************************************)
(* Input domains.                                                          *)
(***************************************************************************)
Usernames == {"alice", "bob"}

Emails == {"alice@x.com", "bob@x.com"}

Passwords == {"pw1", "pw2"}

\* the values bcrypt.gensalt() draws from
BcryptSalts == {"s1"}

Clients == {"c1", "c2"}

\* the browsers that send requests
Browsers == {"c1"}

Ids == 1..MaxId

NoUser == 0

NoFlash == "-"

\* a form field that was not submitted
NoInput == ""

(***************************************************************************)
(* bcrypt: hashpw(password, salt) keeps the salt in the hash; checkpw      *)
(* recomputes the hash with the salt embedded in the stored value.         *)
(***************************************************************************)
hashpw(password, salt) == [salt |-> salt, digest |-> <<salt, password>>]

checkpw(password, hashed) == hashpw(password, hashed.salt) = hashed

(***************************************************************************)
(* itsdangerous URLSafeTimedSerializer: the signing key is derived from    *)
(* the secret and the salt, the signature covers payload and timestamp.    *)
(***************************************************************************)
Sign(secret, salt, payload, ts) == <<secret, salt, payload, ts>>

\* every token is signed under the confirmation salt
generate_token_OneSalt(email, salt, now) ==
    [payload |-> email, ts |-> now,
     sig |-> Sign(SECRET_KEY, EMAIL_CONFIRMATION, email, now)]

generate_token(email, salt, now) ==
    [payload |-> email, ts |-> now, sig |-> Sign(SECRET_KEY, salt, email, now)]

\* a verification that never looks at the age of the token
loads_NoMaxAge(token, salt, max_age, now) ==
    IF token.sig # Sign(SECRET_KEY, salt, token.payload, token.ts)
      THEN [err |-> "BadSignature", email |-> ""]
    ELSE [err |-> "ok", email |-> token.payload]

\* a verification whose key does not depend on the salt
loads_AnySalt(token, salt, max_age, now) ==
    IF \A s \in {EMAIL_CONFIRMATION, PASSWORD_RESET} :
          token.sig # Sign(SECRET_KEY, s, token.payload, token.ts)
      THEN [err |-> "BadSignature", email |-> ""]
    ELSE IF now - token.ts > max_age
      THEN [err |-> "SignatureExpired", email |-> ""]
    ELSE [err |-> "ok", email |-> token.payload]

\* serializer.loads(token, salt=salt, max_age=max_age): the signature is
\* checked first, the age second.
loads(token, salt, max_age, now) ==
    IF token.sig # Sign(SECRET_KEY, salt, token.payload, token.ts)
      THEN [err |-> "BadSignature", email |-> ""]
    ELSE IF now - token.ts > max_age
      THEN [err |-> "SignatureExpired", email |-> ""]
    ELSE [err |-> "ok", email |-> token.payload]

(***************************************************************************)
(* The User table.                                                         *)
(***************************************************************************)
\* a row that is born confirmed
User_Confirmed(username, email, password) ==
    [username |-> username, email |-> email, password |-> password,
     is_confirmed |-> TRUE]

User(username, email, password) ==
    [username |-> username, email |-> email, password |-> password,
     is_confirmed |-> FALSE]

\* a lookup that sees confirmed rows only
filter_by_email_Confirmed(table, email) ==
    {i \in DOMAIN table : table[i].email = email /\ table[i].is_confirmed}

filter_by_email(table, email) == {i \in DOMAIN table : table[i].email = email}

filter_by_username(table, username) ==
    {i \in DOMAIN table : table[i].username = username}

\* a table whose column email is not declared unique
violates_unique_UsernameOnly(table, username, email) ==
    \E i \in DOMAIN table : table[i].username = username

\* unique=True of the columns username and email
violates_unique(table, username, email) ==
    \E i \in DOMAIN table :
        table[i].username = username \/ table[i].email = email

\* .first(): the row or NoUser
first(ids) == IF ids = {} THEN NoUser ELSE CHOOSE i \in ids : TRUE

\* INTEGER PRIMARY KEY of SQLite: one more than the largest id in the table
NextId(table) ==
    IF DOMAIN table = {} THEN 1
    ELSE (CHOOSE i \in DOMAIN table : \A j \in DOMAIN table : j <= i) + 1

Insert(table, row) ==
    [i \in DOMAIN table \cup {NextId(table)} |->
        IF i \in DOMAIN table THEN table[i] ELSE row]

\* a delete that leaves the row in the table
Delete_Keep(table, id) == table

Delete(table, id) == [i \in DOMAIN table \ {id} |-> table[i]]

\* load_user: the row of the id kept in the session cookie, or NoUser
load_user(table, user_id) == IF user_id \in DOMAIN table THEN user_id ELSE NoUser

current_user(c) == load_user(users, session[c])

(***************************************************************************)
(* Responses: the flashed message with its category, and the status: 200   *)
(* for a rendered page, 302 for a redirect, 500 for the error page.        *)
(***************************************************************************)
Response(flash, category, status) ==
    [flash |-> flash, category |-> category, status |-> status]

Fault500 == Response(NoFlash, NoFlash, 500)

\* The request being served: the route, the method, the token of the URL and
\* the submitted fields.
NoRequest == [route |-> "-"]

\* no response is waiting to be read
Idle == Response(NoFlash, NoFlash, 0)

Unauthorized == Response("Please log in to access this page.", "message", 302)

Mail(to, subject, token) == [to |-> to, subject |-> subject, token |-> token]

\* mail.send(msg): the message is delivered, or the transport raises and the
\* request ends in the handler of error 500.
send(msg, mail_ok, done) ==
    IF mail_ok
      THEN /\ Cardinality(mailbox \cup {msg}) <= MaxMail
           /\ mailbox' = mailbox \cup {msg}
           /\ resp' = done
    ELSE /\ UNCHANGED mailbox
         /\ resp' = Fault500

send_confirmation_email(email, mail_ok) ==
    send(Mail(email, "Email Confirmation",
              generate_token(email, EMAIL_CONFIRMATION, clock)),
         mail_ok,
         Response("Account created! Please check your email to confirm.",
                  "success", 302))

(***************************************************************************)
(* Tokens a client can put in a URL: the ones that were mailed, and        *)
(* variants of them with the payload or the timestamp rewritten.           *)
(***************************************************************************)
Mailed == {m.token : m \in mailbox}

Tampered ==
    {[t EXCEPT !.payload = e] : t \in Mailed, e \in Emails}
    \cup {[t EXCEPT !.ts = clock] : t \in Mailed}

UrlTokens == Mailed \cup Tampered

Init ==
    /\ users = << >>
    /\ session = [c \in Clients |-> NoUser]
    /\ mailbox = {}
    /\ clock = 0
    /\ req = NoRequest
    /\ resp = Idle
    /\ pending = [c \in Clients |-> NoRequest]

\* the recipient deletes a mail
Discard(m) ==
    /\ mailbox' = mailbox \ {m}
    /\ UNCHANGED <<users, session, clock, req, resp, pending>>

Tick ==
    /\ clock + TickLen <= MaxTicks * TickLen
    /\ clock' = clock + TickLen
    /\ UNCHANGED <<users, session, mailbox, req, resp, pending>>

Methods == {"GET", "POST"}

\* FlaskForm.validate_on_submit(): a POST whose fields pass the validators;
\* the fields are drawn from well-formed values, so the method decides.
validate_on_submit(method) == method = "POST"

(***************************************************************************)
(* /signup                                                                 *)
(***************************************************************************)
\* a signup that takes the new row back when the mail cannot be sent
signup_Rollback(c, method, username, email, password) ==
    /\ req' = [route |-> "signup", client |-> c, method |-> method,
               username |-> username, email |-> email, password |-> password]
    /\ UNCHANGED <<session, clock, pending>>
    /\ IF ~validate_on_submit(method)
         THEN /\ resp' = Response(NoFlash, NoFlash, 200)
              /\ UNCHANGED <<users, mailbox>>
       ELSE IF first(filter_by_email(users, email)) # NoUser
         THEN /\ resp' = Response("Email already exists.", "danger", 302)
              /\ UNCHANGED <<users, mailbox>>
       ELSE IF violates_unique(users, username, email)
         THEN /\ resp' = Fault500
              /\ UNCHANGED <<users, mailbox>>
       ELSE /\ NextId(users) <= MaxId
            /\ \E mail_ok \in BOOLEAN :
                 /\ send_confirmation_email(email, mail_ok)
                 /\ IF mail_ok
                      THEN \E salt \in BcryptSalts :
                             users' = Insert(users, User(username, email,
                                                         hashpw(password, salt)))
                    ELSE UNCHANGED users

signup(c, method, username, email, password) ==
    /\ req' = [route |-> "signup", client |-> c, method |-> method,
               username |-> username, email |-> email, password |-> password]
    /\ UNCHANGED <<session, clock, pending>>
    /\ IF ~validate_on_submit(method)
         THEN /\ resp' = Response(NoFlash, NoFlash, 200)
              /\ UNCHANGED <<users, mailbox>>
       ELSE IF first(filter_by_email(users, email)) # NoUser
         THEN /\ resp' = Response("Email already exists.", "danger", 302)
              /\ UNCHANGED <<users, mailbox>>
       ELSE IF violates_unique(users, username, email)
         \* the commit raises IntegrityError
         THEN /\ resp' = Fault500
              /\ UNCHANGED <<users, mailbox>>
       ELSE /\ NextId(users) <= MaxId
            /\ \E salt \in BcryptSalts :
                 users' = Insert(users, User(username, email, hashpw(password, salt)))
            /\ \E mail_ok \in BOOLEAN : send_confirmation_email(email, mail_ok)

(***************************************************************************)
(* /confirm/<token>                                                        *)
(***************************************************************************)
\* except SignatureExpired / except Exception
except_confirm(exc) ==
    IF exc = "SignatureExpired"
      THEN Response("Confirmation link expired.", "danger", 302)
    ELSE Response("Invalid confirmation link.", "danger", 302)

\* a confirmation that does not look at is_confirmed first
confirm_email_NoCheck(c, token) ==
    /\ req' = [route |-> "confirm_email", client |-> c, token |-> token]
    /\ UNCHANGED <<session, mailbox, clock, pending>>
    /\ LET r == loads(token, EMAIL_CONFIRMATION, MAX_AGE, clock)
           user == first(filter_by_email(users, r.email))
       IN  IF r.err # "ok"
             THEN /\ resp' = except_confirm(r.err)
                  /\ UNCHANGED users
           ELSE IF user = NoUser
             THEN /\ resp' = except_confirm("NotFound")
                  /\ UNCHANGED users
           ELSE /\ users' = [users EXCEPT ![user].is_confirmed = TRUE]
                /\ resp' = Response("Email confirmed!", "success", 302)

\* a confirmation whose token is spent by its first use
confirm_email_SingleUse(c, token) ==
    /\ req' = [route |-> "confirm_email", client |-> c, token |-> token]
    /\ UNCHANGED <<session, mailbox, clock, pending>>
    /\ LET r == loads(token, EMAIL_CONFIRMATION, MAX_AGE, clock)
           user == first(filter_by_email(users, r.email))
       IN  IF r.err # "ok"
             THEN /\ resp' = except_confirm(r.err)
                  /\ UNCHANGED users
           ELSE IF user = NoUser
             THEN /\ resp' = except_confirm("NotFound")
                  /\ UNCHANGED users
           ELSE IF ~users[user].is_confirmed
             THEN /\ users' = [users EXCEPT ![user].is_confirmed = TRUE]
                  /\ resp' = Response("Email confirmed!", "success", 302)
           ELSE /\ resp' = except_confirm("BadSignature")
                /\ UNCHANGED users

confirm_email(c, token) ==
    /\ req' = [route |-> "confirm_email", client |-> c, token |-> token]
    /\ UNCHANGED <<session, mailbox, clock, pending>>
    /\ LET r == loads(token, EMAIL_CONFIRMATION, MAX_AGE, clock)
           user == first(filter_by_email(users, r.email))
       IN  IF r.err # "ok"
             THEN /\ resp' = except_confirm(r.err)
                  /\ UNCHANGED users
           ELSE IF user = NoUser
             \* first_or_404 raises NotFound inside the try block
             THEN /\ resp' = except_confirm("NotFound")
                  /\ UNCHANGED users
           ELSE IF ~users[user].is_confirmed
             THEN /\ users' = [users EXCEPT ![user].is_confirmed = TRUE]
                  /\ resp' = Response("Email confirmed!", "success", 302)
           ELSE /\ resp' = Response("Email already confirmed.", "info", 302)
                /\ UNCHANGED users

(***************************************************************************)
(* /signin                                                                 *)
(***************************************************************************)
\* signin without the check of is_confirmed
SigninOutcome_NoGate(table, username, password) ==
    LET user == first(filter_by_username(table, username))
    IN  IF user # NoUser /\ checkpw(password, table[user].password)
          THEN Response("Sign in successful!", "success", 302)
        ELSE Response("Invalid username or password.", "danger", 200)

\* signin that tells an unknown username from a wrong password
SigninOutcome_Enumerate(table, username, password) ==
    LET user == first(filter_by_username(table, username))
    IN  IF user = NoUser
          THEN Response("Unknown username.", "danger", 200)
        ELSE IF checkpw(password, table[user].password)
          THEN IF table[user].is_confirmed
                 THEN Response("Sign in successful!", "success", 302)
               ELSE Response("Please confirm your email first.", "warning", 200)
        ELSE Response("Invalid username or password.", "danger", 200)

SigninOutcome(table, username, password) ==
    LET user == first(filter_by_username(table, username))
    IN  IF user # NoUser /\ checkpw(password, table[user].password)
          THEN IF table[user].is_confirmed
                 THEN Response("Sign in successful!", "success", 302)
               ELSE Response("Please confirm your email first.", "warning", 200)
        ELSE Response("Invalid username or password.", "danger", 200)

signin(c, method, username, password) ==
    /\ req' = [route |-> "signin", client |-> c, method |-> method,
               username |-> username, password |-> password]
    /\ UNCHANGED <<users, mailbox, clock, pending>>
    /\ IF ~validate_on_submit(method)
         THEN /\ resp' = Response(NoFlash, NoFlash, 200)
              /\ UNCHANGED session
       ELSE /\ resp' = SigninOutcome(users, username, password)
            /\ IF resp'.status = 302
                 \* login_user(user)
                 THEN session' = [session EXCEPT
                                    ![c] = first(filter_by_username(users, username))]
               ELSE UNCHANGED session

(***************************************************************************)
(* /logout                                                                 *)
(***************************************************************************)
logout(c) ==
    /\ req' = [route |-> "logout", client |-> c]
    /\ UNCHANGED <<users, mailbox, clock, pending>>
    /\ IF current_user(c) = NoUser
         THEN /\ resp' = Unauthorized
              /\ UNCHANGED session
       ELSE /\ session' = [session EXCEPT ![c] = NoUser]
            /\ resp' = Response("Logged out successfully.", "info", 302)

(***************************************************************************)
(* /reset_password                                                         *)
(***************************************************************************)
reset_password(c, method, email) ==
    /\ req' = [route |-> "reset_password", client |-> c, method |-> method,
               email |-> email]
    /\ UNCHANGED <<users, session, clock, pending>>
    /\ LET user == first(filter_by_email(users, email))
       IN  IF ~validate_on_submit(method)
             THEN /\ resp' = Response(NoFlash, NoFlash, 200)
                  /\ UNCHANGED mailbox
           ELSE IF user = NoUser
             THEN /\ resp' = Response("Email not found.", "danger", 200)
                  /\ UNCHANGED mailbox
           ELSE \E mail_ok \in BOOLEAN :
                  send(Mail(users[user].email, "Password Reset Request",
                            generate_token(users[user].email, PASSWORD_RESET, clock)),
                       mail_ok,
                       Response("Reset link sent to your email.", "info", 302))

(***************************************************************************)
(* /reset_password/<token>                                                 *)
(***************************************************************************)
\* except SignatureExpired / except Exception
except_reset(exc) ==
    IF exc = "SignatureExpired"
      THEN Response("Reset link expired.", "danger", 302)
    ELSE Response("Invalid reset link.", "danger", 302)

\* a reset that reports success without writing the new hash
reset_password_confirm_NoWrite(c, method, token, new_password) ==
    /\ req' = [route |-> "reset_password_confirm", client |-> c,
               method |-> method, token |-> token, new_password |-> new_password]
    /\ UNCHANGED <<users, session, mailbox, clock, pending>>
    /\ LET r == loads(token, PASSWORD_RESET, MAX_AGE, clock)
           user == first(filter_by_email(users, r.email))
       IN  IF r.err # "ok"
             THEN resp' = except_reset(r.err)
           ELSE IF user = NoUser
             THEN resp' = except_reset("NotFound")
           ELSE IF validate_on_submit(method)
             THEN resp' = Response("Password reset successful!", "success", 302)
           ELSE resp' = Response(NoFlash, NoFlash, 200)

\* a reset that takes the click on the mailed link as a confirmation of the
\* address
reset_password_confirm_Confirms(c, method, token, new_password) ==
    /\ req' = [route |-> "reset_password_confirm", client |-> c,
               method |-> method, token |-> token, new_password |-> new_password]
    /\ UNCHANGED <<session, mailbox, clock, pending>>
    /\ LET r == loads(token, PASSWORD_RESET, MAX_AGE, clock)
           user == first(filter_by_email(users, r.email))
       IN  IF r.err # "ok"
             THEN /\ resp' = except_reset(r.err)
                  /\ UNCHANGED users
           ELSE IF user = NoUser
             THEN /\ resp' = except_reset("NotFound")
                  /\ UNCHANGED users
           ELSE IF validate_on_submit(method)
             THEN /\ \E salt \in BcryptSalts :
                       users' = [users EXCEPT
                                   ![user].password = hashpw(new_password, salt),
                                   ![user].is_confirmed = TRUE]
                  /\ resp' = Response("Password reset successful!", "success", 302)
           ELSE /\ resp' = Response(NoFlash, NoFlash, 200)
                /\ UNCHANGED users

reset_password_confirm(c, method, token, new_password) ==
    /\ req' = [route |-> "reset_password_confirm", client |-> c,
               method |-> method, token |-> token, new_password |-> new_password]
    /\ UNCHANGED <<session, mailbox, clock, pending>>
    /\ LET r == loads(token, PASSWORD_RESET, MAX_AGE, clock)
           user == first(filter_by_email(users, r.email))
       IN  IF r.err # "ok"
             THEN /\ resp' = except_reset(r.err)
                  /\ UNCHANGED users
           ELSE IF user = NoUser
             \* first_or_404 raises NotFound inside the try block
             THEN /\ resp' = except_reset("NotFound")
                  /\ UNCHANGED users
           ELSE IF validate_on_submit(method)
             THEN /\ \E salt \in BcryptSalts :
                       users' = [users EXCEPT
                                   ![user].password = hashpw(new_password, salt)]
                  /\ resp' = Response("Password reset successful!", "success", 302)
           ELSE /\ resp' = Response(NoFlash, NoFlash, 200)
                /\ UNCHANGED users

(***************************************************************************)
(* /change_password                                                        *)
(***************************************************************************)
\* a change of password that does not verify old_password
change_password_NoVerify(c, method, old_password, new_password) ==
    /\ req' = [route |-> "change_password", client |-> c, method |-> method,
               old_password |-> old_password, new_password |-> new_password]
    /\ UNCHANGED <<session, mailbox, clock, pending>>
    /\ LET user == current_user(c)
       IN  IF user = NoUser
             THEN /\ resp' = Unauthorized
                  /\ UNCHANGED users
           ELSE IF ~validate_on_submit(method)
             THEN /\ resp' = Response(NoFlash, NoFlash, 200)
                  /\ UNCHANGED users
           ELSE /\ \E salt \in BcryptSalts :
                     users' = [users EXCEPT
                                 ![user].password = hashpw(new_password, salt)]
                /\ resp' = Response("Password changed successfully!", "success", 302)

change_password(c, method, old_password, new_password) ==
    /\ req' = [route |-> "change_password", client |-> c, method |-> method,
               old_password |-> old_password, new_password |-> new_password]
    /\ UNCHANGED <<session, mailbox, clock, pending>>
    /\ LET user == current_user(c)
       IN  IF user = NoUser
             THEN /\ resp' = Unauthorized
                  /\ UNCHANGED users
           ELSE IF ~validate_on_submit(method)
             THEN /\ resp' = Response(NoFlash, NoFlash, 200)
                  /\ UNCHANGED users
           ELSE IF checkpw(old_password, users[user].password)
             THEN /\ \E salt \in BcryptSalts :
                       users' = [users EXCEPT
                                   ![user].password = hashpw(new_password, salt)]
                  /\ resp' = Response("Password changed successfully!", "success", 302)
           ELSE /\ resp' = Response("Incorrect old password.", "danger", 200)
                /\ UNCHANGED users

(***************************************************************************)
(* /delete_account                                                         *)
(***************************************************************************)
delete_account(c, method) ==
    /\ req' = [route |-> "delete_account", client |-> c, method |-> method]
    /\ UNCHANGED <<mailbox, clock, pending>>
    /\ LET user == current_user(c)
       IN  IF user = NoUser
             THEN /\ resp' = Unauthorized
                  /\ UNCHANGED <<users, session>>
           ELSE IF method = "POST"
             THEN /\ users' = Delete(users, user)
                  /\ session' = [session EXCEPT ![c] = NoUser]
                  /\ resp' = Response("Account deleted successfully.", "success", 302)
           ELSE /\ resp' = Response(NoFlash, NoFlash, 200)
                /\ UNCHANGED <<users, session>>

\* the browser has read the response
Receive ==
    /\ resp # Idle
    /\ req' = NoRequest
    /\ resp' = Idle
    /\ UNCHANGED <<users, session, mailbox, clock, pending>>

\* Requests are served one at a time: the browser reads a response before
\* the next request is sent, and time passes between requests.
Ready == resp = Idle

\* the requests the browsers B can send, time and the mailbox
Serve(B) ==
    \/ Ready /\ Tick
    \/ Ready /\ \E m \in mailbox : Discard(m)
    \/ Receive
    \/ Ready /\ \E c \in B, u \in Usernames, e \in Emails, p \in Passwords :
                  signup(c, "POST", u, e, p)
    \/ Ready /\ \E c \in B : signup(c, "GET", NoInput, NoInput, NoInput)
    \/ Ready /\ \E c \in B, t \in UrlTokens : confirm_email(c, t)
    \/ Ready /\ \E c \in B, u \in Usernames, p \in Passwords :
                  signin(c, "POST", u, p)
    \/ Ready /\ \E c \in B : signin(c, "GET", NoInput, NoInput)
    \/ Ready /\ \E c \in B : logout(c)
    \/ Ready /\ \E c \in B, e \in Emails : reset_password(c, "POST", e)
    \/ Ready /\ \E c \in B : reset_password(c, "GET", NoInput)
    \/ Ready /\ \E c \in B, t \in UrlTokens, p \in Passwords :
                  reset_password_confirm(c, "POST", t, p)
    \/ Ready /\ \E c \in B, t \in UrlTokens :
                  reset_password_confirm(c, "GET", t, NoInput)
    \/ Ready /\ \E c \in B, o \in Passwords, p \in Passwords :
                  change_password(c, "POST", o, p)
    \/ Ready /\ \E c \in B : change_password(c, "GET", NoInput, NoInput)
    \/ Ready /\ \E c \in B, m \in Methods : delete_account(c, m)

Next == Serve(Browsers)

Spec == Init /\ [][Next]_vars

(***************************************************************************)
(* Several browsers: every client of Clients sends requests, each with its *)
(* own session cookie.                                                     *)
(***************************************************************************)
NextSessions == Serve(Clients)

SpecSessions == Init /\ [][NextSessions]_vars

(***************************************************************************)
(* Two signups in flight.  signup reads the table at the query for the     *)
(* address and writes it at db.session.commit(); another request can be    *)
(* served between the two.  pending[c] is the signup of client c that has  *)
(* passed the query and has not reached its commit.                        *)
(***************************************************************************)
\* form.validate_on_submit() and the query for the address
signup_query(c, username, email, password) ==
    /\ pending[c] = NoRequest
    /\ UNCHANGED <<users, session, mailbox, clock>>
    /\ LET r == [route |-> "signup", client |-> c, method |-> "POST",
                 username |-> username, email |-> email, password |-> password]
       IN  IF first(filter_by_email(users, email)) # NoUser
             THEN /\ req' = r
                  /\ resp' = Response("Email already exists.", "danger", 302)
                  /\ UNCHANGED pending
           ELSE /\ pending' = [pending EXCEPT ![c] = r]
                /\ UNCHANGED <<req, resp>>

\* db.session.add, db.session.commit and send_confirmation_email
signup_commit(c) ==
    /\ pending[c] # NoRequest
    /\ pending' = [pending EXCEPT ![c] = NoRequest]
    /\ req' = pending[c]
    /\ UNCHANGED <<session, clock>>
    /\ IF violates_unique(users, pending[c].username, pending[c].email)
         THEN /\ resp' = Fault500
              /\ UNCHANGED <<users, mailbox>>
       ELSE /\ NextId(users) <= MaxId
            /\ \E salt \in BcryptSalts :
                 users' = Insert(users, User(pending[c].username, pending[c].email,
                                             hashpw(pending[c].password, salt)))
            /\ \E mail_ok \in BOOLEAN :
                 send_confirmation_email(pending[c].email, mail_ok)

NextRace ==
    \/ \E m \in mailbox : Discard(m)
    \/ \E c \in Clients, u \in Usernames, e \in Emails, p \in Passwords :
          signup_query(c, u, e, p)
    \/ \E c \in Clients : signup_commit(c)

SpecRace == Init /\ [][NextRace]_vars

(***************************************************************************)
(* Properties.                                                             *)
(***************************************************************************)
Matches(table, username, password) ==
    {i \in DOMAIN table : /\ table[i].username = username
                          /\ checkpw(password, table[i].password)}

Served(route) == req.route = route

\* C1 (confirmation gate): a step starts a session for a user, or answers
\* "Sign in successful!", only if it is a signin whose username is a row of
\* the table, whose password matches the stored hash and whose row is
\* confirmed; a signin with the right password of an unconfirmed row answers
\* "Please confirm your email first." and leaves every session as it was.
C1_ConfirmationGate ==
    [][/\ \A c \in Clients :
            (\/ session'[c] \notin {session[c], NoUser}
             \/ (/\ req'.route = "signin" /\ req'.client = c
                 /\ resp'.flash = "Sign in successful!"))
            => /\ req'.route = "signin" /\ req'.client = c
               /\ session'[c] \in Matches(users, req'.username, req'.password)
               /\ users[session'[c]].is_confirmed
       /\ (/\ req'.route = "signin" /\ req'.method = "POST"
           /\ \E i \in Matches(users, req'.username, req'.password) :
                 ~users[i].is_confirmed)
          => /\ resp'.flash = "Please confirm your email first."
             /\ session' = session]_vars

C1_Witness ==
    /\ Served("signin") /\ req.method = "POST"
    /\ \E i \in Matches(users, req.username, req.password) : ~users[i].is_confirmed
    /\ resp.flash = "Please confirm your email first."
    /\ session[req.client] = NoUser

\* C2 (is_confirmed is monotone): in every step, a row that appears in the
\* table is unconfirmed, and a confirmed row that stays in the table stays
\* confirmed.
C2_ConfirmedMonotone ==
    [][\A i \in Ids :
          /\ (i \in DOMAIN users' /\ i \notin DOMAIN users)
                => ~users'[i].is_confirmed
          /\ (i \in DOMAIN users' /\ i \in DOMAIN users /\ users[i].is_confirmed)
                => users'[i].is_confirmed]_vars

C2_Witness ==
    /\ Served("reset_password_confirm")
    /\ resp.flash = "Password reset successful!"
    /\ \E i \in DOMAIN users :
          /\ users[i].email = req.token.payload
          /\ users[i].is_confirmed

\* C3 (purpose isolation): a mailed password-reset token presented to
\* /confirm/<token>, and a mailed confirmation token presented to
\* /reset_password/<token>, is answered as an invalid link and changes no
\* row, also while the token is within its validity window.
C3_PurposeIsolation ==
    [][\A m \in mailbox :
          /\ (/\ m.subject = "Password Reset Request"
              /\ req'.route = "confirm_email" /\ req'.token = m.token)
             => /\ resp'.flash = "Invalid confirmation link."
                /\ users' = users
          /\ (/\ m.subject = "Email Confirmation"
              /\ req'.route = "reset_password_confirm" /\ req'.token = m.token)
             => /\ resp'.flash = "Invalid reset link."
                /\ users' = users]_vars

C3_Witness ==
    /\ Served("confirm_email")
    /\ \E m \in mailbox :
          /\ m.subject = "Password Reset Request" /\ m.token = req.token
          /\ clock - m.token.ts <= MAX_AGE
          /\ \E i \in DOMAIN users :
                users[i].email = m.token.payload /\ ~users[i].is_confirmed
    /\ resp.flash = "Invalid confirmation link."

\* the purpose under which the token of a mail was issued
Purpose(m) ==
    IF m.subject = "Email Confirmation" THEN EMAIL_CONFIRMATION ELSE PASSWORD_RESET

TokenRoutes == {"confirm_email", "reset_password_confirm"}

\* C4 (token expiry): a mailed token that is presented, to either route,
\* more than 3600 seconds after its issue time changes no row and is
\* answered with the expired-link message of the route when the token is of
\* the purpose of the route, and with its invalid-link message otherwise.
C4_TokenExpiry ==
    [][\A m \in mailbox :
          (/\ req'.route \in TokenRoutes /\ req'.token = m.token
           /\ clock - m.token.ts > 3600)
          => /\ users' = users
             /\ resp'.flash =
                  IF req'.route = "confirm_email"
                    THEN IF Purpose(m) = EMAIL_CONFIRMATION
                           THEN "Confirmation link expired."
                         ELSE "Invalid confirmation link."
                  ELSE IF Purpose(m) = PASSWORD_RESET
                         THEN "Reset link expired."
                       ELSE "Invalid reset link."
             /\ resp'.category = "danger"]_vars

C4_Witness ==
    /\ Served("reset_password_confirm") /\ req.method = "POST"
    /\ \E m \in mailbox :
          /\ m.token = req.token /\ Purpose(m) = PASSWORD_RESET
          /\ clock - m.token.ts > 3600
          /\ \E i \in DOMAIN users :
                /\ users[i].email = m.to
                /\ ~checkpw(req.new_password, users[i].password)
    /\ resp.flash = "Reset link expired."

\* C5 (token round trip): every mailed token, verified under the purpose it
\* was issued for while at most 3600 seconds old, yields the address it was
\* issued for.
C5_RoundTrip ==
    \A m \in mailbox :
        clock - m.token.ts <= 3600
        => loads(m.token, Purpose(m), MAX_AGE, clock) = [err |-> "ok", email |-> m.to]

C5_Witness ==
    /\ Served("reset_password_confirm")
    /\ \E m \in mailbox :
          /\ m.token = req.token /\ Purpose(m) = PASSWORD_RESET
          /\ clock - m.token.ts = 3600
          /\ loads(m.token, PASSWORD_RESET, MAX_AGE, clock).email = m.to
    /\ resp.flash = "Password reset successful!"

\* C6 (duplicate email): a submitted signup whose email is the email of a
\* row answers "Email already exists.", adds no row, changes no row and
\* sends no mail.
C6_DuplicateEmail ==
    [][(/\ req'.route = "signup" /\ req'.method = "POST"
        /\ \E i \in DOMAIN users : users[i].email = req'.email)
       => /\ resp' = Response("Email already exists.", "danger", 302)
          /\ users' = users
          /\ mailbox' = mailbox]_vars

C6_Witness ==
    /\ Served("signup") /\ req.method = "POST"
    /\ \E i \in DOMAIN users :
          /\ users[i].email = req.email
          /\ users[i].username # req.username
          /\ ~users[i].is_confirmed
    /\ resp.flash = "Email already exists."
    /\ Cardinality(DOMAIN users) = 1

\* C7 (confirmation is idempotent): a token that verifies for an unconfirmed
\* row sets is_confirmed of that row and nothing else; a token that
\* verifies for a confirmed row answers "Email already confirmed." and
\* leaves the table as it was.
C7_ConfirmIdempotent ==
    [][\A i \in DOMAIN users :
          (/\ req'.route = "confirm_email"
           /\ loads(req'.token, EMAIL_CONFIRMATION, MAX_AGE, clock)
                 = [err |-> "ok", email |-> users[i].email])
          => IF users[i].is_confirmed
               THEN /\ resp'.flash = "Email already confirmed."
                    /\ users' = users
             ELSE /\ resp'.flash = "Email confirmed!"
                  /\ users' = [users EXCEPT ![i].is_confirmed = TRUE]]_vars

C7_Witness ==
    /\ Served("confirm_email")
    /\ req.token \in Mailed
    /\ \E i \in DOMAIN users :
          /\ loads(req.token, EMAIL_CONFIRMATION, MAX_AGE, clock)
                = [err |-> "ok", email |-> users[i].email]
          /\ users[i].is_confirmed
    /\ resp.flash = "Email already confirmed."

\* the row a successful reset wrote to
ResetTarget == first(filter_by_email(users, req'.token.payload))

ResetDone ==
    /\ req'.route = "reset_password_confirm"
    /\ resp'.flash = "Password reset successful!"

InvalidCredentials == Response("Invalid username or password.", "danger", 200)

\* C8 as stated: after a successful reset for a confirmed user, signin with
\* the password that matched before the reset is refused with the generic
\* message, and signin with new_password succeeds.
C8_ResetTakesEffect_AsStated ==
    [][(ResetDone /\ users'[ResetTarget].is_confirmed) =>
          LET i == ResetTarget
          IN  /\ \A p \in Passwords :
                    checkpw(p, users[i].password)
                    => SigninOutcome(users', users'[i].username, p)
                         = InvalidCredentials
              /\ SigninOutcome(users', users'[i].username,
                               req'.new_password).flash
                    = "Sign in successful!"]_vars

\* C8 (amended): a submitted reset with a mailed, unexpired reset token of
\* an existing user succeeds; after a successful reset, signin with
\* new_password succeeds for a confirmed user, and signin with any other
\* password -- the old one when it differs from new_password -- is refused
\* with the generic message.
C8_ResetTakesEffect ==
    [][/\ \A m \in mailbox :
            (/\ req'.route = "reset_password_confirm" /\ req'.method = "POST"
             /\ req'.token = m.token /\ Purpose(m) = PASSWORD_RESET
             /\ clock - m.token.ts <= 3600
             /\ filter_by_email(users, m.to) # {})
            => ResetDone
       /\ ResetDone =>
            LET i == ResetTarget
            IN  /\ \A p \in Passwords \ {req'.new_password} :
                      SigninOutcome(users', users'[i].username, p)
                        = InvalidCredentials
                /\ users'[i].is_confirmed
                      => SigninOutcome(users', users'[i].username,
                                       req'.new_password).flash
                           = "Sign in successful!"]_vars

C8_Witness ==
    /\ Served("reset_password_confirm")
    /\ resp.flash = "Password reset successful!"
    /\ req.token \in Mailed
    /\ \E i \in DOMAIN users :
          /\ users[i].email = req.token.payload
          /\ users[i].is_confirmed
          /\ SigninOutcome(users, users[i].username, req.new_password).status = 302
          /\ \E p \in Passwords :
                SigninOutcome(users, users[i].username, p) = InvalidCredentials

\* C9 (no username enumeration): a submitted signin whose username is no
\* row, and one whose password does not match the row of the username, get
\* one and the same response, and change no session, row or mail.
C9_GenericAuthFailure ==
    [][(/\ req'.route = "signin" /\ req'.method = "POST"
        /\ Matches(users, req'.username, req'.password) = {})
       => /\ resp' = InvalidCredentials
          /\ UNCHANGED <<users, session, mailbox>>]_vars

C9_Witness ==
    /\ Served("signin") /\ req.method = "POST"
    /\ filter_by_username(users, req.username) = {}
    /\ resp = InvalidCredentials
    /\ \E i \in DOMAIN users, p \in Passwords :
          /\ ~checkpw(p, users[i].password)
          /\ SigninOutcome(users, users[i].username, p) = resp

\* C10 as stated: an expired token is answered exactly as a token with a bad
\* signature is, in /confirm/<token> and in /reset_password/<token>.
C10_ExpiredLikeTampered ==
    /\ (/\ Served("confirm_email")
        /\ loads(req.token, EMAIL_CONFIRMATION, MAX_AGE, clock).err
              = "SignatureExpired")
       => resp = except_confirm("BadSignature")
    /\ (/\ Served("reset_password_confirm")
        /\ loads(req.token, PASSWORD_RESET, MAX_AGE, clock).err
              = "SignatureExpired")
       => resp = except_reset("BadSignature")

\* C11 as stated: no request ends in an unhandled fault; every response is
\* a page or a redirect that carries the outcome of the operation.
C11_NoUnhandledFault == resp.status # 500

\* C12 (no rollback on mail failure): a signup that fails only in the send
\* leaves its new, unconfirmed row in the table and every other row as it
\* was; a reset request changes no row, whether the send fails or not.
C12_NoRollback ==
    [][/\ (/\ req'.route = "signup" /\ req'.method = "POST"
           /\ resp' = Fault500
           /\ ~violates_unique(users, req'.username, req'.email))
          => /\ \A i \in DOMAIN users : i \in DOMAIN users' /\ users'[i] = users[i]
             /\ \E i \in DOMAIN users' \ DOMAIN users :
                   /\ users'[i].username = req'.username
                   /\ users'[i].email = req'.email
                   /\ checkpw(req'.password, users'[i].password)
                   /\ ~users'[i].is_confirmed
             /\ mailbox' = mailbox
       /\ req'.route = "reset_password" => users' = users
       /\ (req'.route = "reset_password" /\ resp' = Fault500)
          => mailbox' = mailbox]_vars

C12_Witness ==
    /\ Served("signup") /\ resp = Fault500
    /\ mailbox = {}
    /\ \E i \in DOMAIN users :
          /\ users[i].username = req.username
          /\ users[i].email = req.email
          /\ ~users[i].is_confirmed

\* C13 (token replay): tokens are not spent.  A mailed token of the route's
\* purpose, at most 3600 seconds old, whose user exists, is accepted every
\* time it is presented: the confirmation token of a confirmed row answers
\* "Email already confirmed." and changes nothing, the reset token
\* overwrites the password again; and the accepting step leaves the mail,
\* the clock and the row of the user in place, so that the same token is
\* accepted at the next presentation too.
C13_TokenReplay ==
    [][\A m \in mailbox :
          LET rows == filter_by_email(users, m.to)
              live == /\ req'.token = m.token
                      /\ clock - m.token.ts <= 3600
                      /\ rows # {}
              stays == /\ mailbox' = mailbox
                       /\ clock' = clock
                       /\ filter_by_email(users', m.to) = rows
          IN  /\ (/\ req'.route = "confirm_email"
                  /\ Purpose(m) = EMAIL_CONFIRMATION /\ live)
                 => /\ resp'.flash \in {"Email confirmed!",
                                        "Email already confirmed."}
                    /\ (\A i \in rows : users[i].is_confirmed)
                          => /\ resp'.flash = "Email already confirmed."
                             /\ users' = users
                    /\ stays
              /\ (/\ req'.route = "reset_password_confirm"
                  /\ req'.method = "POST"
                  /\ Purpose(m) = PASSWORD_RESET /\ live)
                 => /\ resp'.flash = "Password reset successful!"
                    /\ \A i \in rows :
                          checkpw(req'.new_password, users'[i].password)
                    /\ stays]_vars

\* the confirmation token of a confirmed row is presented again in the last
\* second of its window
C13_Witness ==
    /\ Served("confirm_email")
    /\ req.token \in Mailed
    /\ clock - req.token.ts = MAX_AGE
    /\ \E i \in filter_by_email(users, req.token.payload) : users[i].is_confirmed
    /\ resp = Response("Email already confirmed.", "info", 302)

\* C14 as stated: a confirmation token that verifies but whose address is no
\* row of the table gets an outcome of its own (not found), not the outcome
\* of an expired or invalid link.
C14_NotFoundOutcome ==
    (/\ Served("confirm_email")
     /\ loads(req.token, EMAIL_CONFIRMATION, MAX_AGE, clock).err = "ok"
     /\ filter_by_email(users, req.token.payload) = {})
    => resp \notin {except_confirm("BadSignature"),
                    except_confirm("SignatureExpired")}

\* the row of the session that sent the request being served
Acting == current_user(req'.client)

ChangeSubmitted == req'.route = "change_password" /\ req'.method = "POST"

\* C15 as stated: after a change of password with the right old_password,
\* new_password verifies against the stored hash and old_password does not.
C15_ChangePassword_AsStated ==
    [][(/\ ChangeSubmitted /\ Acting # NoUser
        /\ checkpw(req'.old_password, users[Acting].password))
       => /\ checkpw(req'.new_password, users'[Acting].password)
          /\ ~checkpw(req'.old_password, users'[Acting].password)]_vars

\* C15 (amended): without a session the request is sent to the login page
\* and no row changes; with a session and a wrong old_password the answer is
\* "Incorrect old password." and no row changes; with the right
\* old_password the stored hash is replaced: new_password verifies and no
\* other password does -- old_password only when it equals new_password.
C15_ChangePassword ==
    [][/\ (req'.route = "change_password" /\ Acting = NoUser)
          => resp' = Unauthorized /\ users' = users
       /\ (ChangeSubmitted /\ Acting # NoUser)
          => IF checkpw(req'.old_password, users[Acting].password)
               THEN /\ resp'.flash = "Password changed successfully!"
                    /\ \A p \in Passwords :
                          checkpw(p, users'[Acting].password)
                            <=> p = req'.new_password
             ELSE /\ resp' = Response("Incorrect old password.", "danger", 200)
                  /\ users' = users]_vars

C15_Witness ==
    /\ Served("change_password") /\ req.method = "POST"
    /\ resp.flash = "Password changed successfully!"
    /\ req.old_password # req.new_password
    /\ checkpw(req.new_password, users[session[req.client]].password)
    /\ ~checkpw(req.old_password, users[session[req.client]].password)

\* C16 (account deletion): a submitted deletion from a session with a user
\* removes the row of that user and no other, and ends the session;
\* afterwards signin with the username of the row is refused with the
\* generic message for every password, and a signup with the address of the
\* row meets neither the duplicate check nor the unique constraints.
C16_DeleteAccount ==
    [][(/\ req'.route = "delete_account" /\ req'.method = "POST"
        /\ Acting # NoUser)
       => /\ resp'.flash = "Account deleted successfully."
          /\ users' = [i \in DOMAIN users \ {Acting} |-> users[i]]
          /\ session'[req'.client] = NoUser
          /\ \A p \in Passwords :
                SigninOutcome(users', users[Acting].username, p)
                  = InvalidCredentials
          /\ first(filter_by_email(users', users[Acting].email)) = NoUser
          /\ ~violates_unique(users', users[Acting].username,
                              users[Acting].email)]_vars

C16_Witness ==
    /\ Served("delete_account") /\ req.method = "POST"
    /\ resp.flash = "Account deleted successfully."
    /\ session[req.client] = NoUser
    /\ Cardinality(DOMAIN users) = 1
    /\ \A p \in Passwords :
          SigninOutcome(users, "alice", p) = InvalidCredentials

\* the row whose password the request being served may write
PasswordTarget ==
    IF req'.route = "reset_password_confirm" THEN ResetTarget ELSE Acting

\* C18 (frame of the password writes): a step of reset_password_confirm or
\* change_password adds and removes no row, changes no row but the target's
\* and no column of the target but password, and leaves sessions, mails and
\* clock alone; after a successful reset of an unconfirmed row, signin with
\* new_password is still refused with "Please confirm your email first.".
C18_PasswordFrame ==
    [][req'.route \in {"reset_password_confirm", "change_password"}
       => /\ DOMAIN users' = DOMAIN users
          /\ \A i \in DOMAIN users :
                /\ users'[i].username = users[i].username
                /\ users'[i].email = users[i].email
                /\ users'[i].is_confirmed = users[i].is_confirmed
                /\ i # PasswordTarget => users'[i] = users[i]
          /\ UNCHANGED <<session, mailbox, clock>>
          /\ (ResetDone /\ ~users[ResetTarget].is_confirmed)
                => SigninOutcome(users', users[ResetTarget].username,
                                 req'.new_password)
                     = Response("Please confirm your email first.",
                                "warning", 200)]_vars

C18_Witness ==
    /\ Served("reset_password_confirm")
    /\ resp.flash = "Password reset successful!"
    /\ Cardinality(DOMAIN users) = 2
    /\ \E i \in filter_by_email(users, req.token.payload) :
          /\ ~users[i].is_confirmed
          /\ checkpw(req.new_password, users[i].password)
          /\ SigninOutcome(users, users[i].username, req.new_password).flash
                = "Please confirm your email first."

\* C17 (unique addresses and usernames): in every state, also between the
\* query and the commit of two signups in flight, no two rows of the table
\* have the same email and no two have the same username.
C17_UniqueRows ==
    \A i, j \in DOMAIN users :
        i # j => /\ users[i].email # users[j].email
                 /\ users[i].username # users[j].username

\* both signups passed the query for the same address while it was free;
\* the first commit inserted the row and the second was refused by the table
C17_Witness ==
    /\ Served("signup") /\ resp = Fault500
    /\ \E i \in DOMAIN users :
          /\ users[i].email = req.email
          /\ users[i].username # req.username
    /\ \A c \in Clients : pending[c] = NoRequest

\* C19 as stated: a session whose user id is no row of the table -- the row
\* was deleted through another session -- keeps resolving to no user for as
\* long as it holds that id, whatever rows are inserted later.
C19_StaleSessionStaysOut ==
    [][\A c \in Clients :
          (/\ session[c] # NoUser
           /\ current_user(c) = NoUser
           /\ session'[c] = session[c])
          => load_user(users', session'[c]) = NoUser]_vars

====
